---- MODULE Spec2Model ----
(***************************************************************************)
(* nodejs-lsd-logger (src/src/index.ts): writeLog, the retry queue         *)
(* STORED_MESSAGES with its repeatTimer, writeData and the two writers     *)
(* writeToFile / writeToFileWithLock, as a state machine whose steps are   *)
(* the callbacks of the Node.js event loop.  One step is one callback      *)
(* together with the promise continuations (microtasks) it releases.       *)
(***************************************************************************)
EXTENDS Integers, Sequences, FiniteSets, TLC

(* ---------------------------------------------------------------- bounds *)
MaxMsgs == 2          \* writeLog calls made in one run
MaxExt == 1           \* lock acquisitions by the external cooperating process
MaxFaults == 1        \* I/O errors (mkdir, chmod, open, write, unlock) injected in one run

(* ------------------------------------------------------ program constants *)
MAX_MESSAGE_SIZE == 4096
InitialUmask == 18    \* 0o022, the usual process mask

Msgs == 1..MaxMsgs
Dirs == {"/tmp/lsd"}
Lengths == {5, MAX_MESSAGE_SIZE, MAX_MESSAGE_SIZE + 1}

\* the wall clock readings a run goes through (new Date())
Timestamps ==
    << [year |-> 2023, month |-> 2, day |-> 12, hour |-> 16, minute |-> 26, second |-> 3],
       [year |-> 2023, month |-> 2, day |-> 12, hour |-> 16, minute |-> 27, second |-> 0] >>

(* ------------------------------------------------------------ file names *)
Digit(n) ==
    CASE n = 0 -> "0" [] n = 1 -> "1" [] n = 2 -> "2" [] n = 3 -> "3" [] n = 4 -> "4"
      [] n = 5 -> "5" [] n = 6 -> "6" [] n = 7 -> "7" [] n = 8 -> "8" [] n = 9 -> "9"

\* Intl.DateTimeFormat {x: 'numeric'}: the decimal digits, no padding
RECURSIVE Numeric(_)
Numeric(n) == IF n < 10 THEN <<Digit(n)>> ELSE Numeric(n \div 10) \o <<Digit(n % 10)>>

\* Intl.DateTimeFormat {x: '2-digit'}: the last two digits, zero padded
TwoDigit(n) == <<Digit((n \div 10) % 10), Digit(n % 10)>>

\* String.prototype.padStart(len, "0")
RECURSIVE PadStart(_, _)
PadStart(s, len) == IF Len(s) >= len THEN s ELSE PadStart(<<"0">> \o s, len)

\* getFileName(): `${year}${month}${day}${hour}${minute}00`
getFileName(t) ==
    Numeric(t.year) \o TwoDigit(t.month) \o TwoDigit(t.day) \o TwoDigit(t.hour)
        \o PadStart(Numeric(t.minute), 2) \o <<"0", "0">>

\* the threshold compared with >= : a message of exactly 4096 counts as large
IsLargeInclusive(len) == len >= MAX_MESSAGE_SIZE

\* message.length > MAX_MESSAGE_SIZE
IsLarge(len) == len > MAX_MESSAGE_SIZE

\* fileName (with `_big` for large data) and `${dirPath}/${fileName}.log`
FilePath(dirPath, t, large) ==
    <<dirPath, "/">> \o getFileName(t) \o (IF large THEN <<"_big">> ELSE <<>>) \o <<".log">>

\* logMessageData of writeLog
LogMessageData(m, dirPath, len, t) ==
    [ isLargeData |-> IsLarge(len),
      filePath    |-> FilePath(dirPath, t, IsLarge(len)),
      message     |-> [text |-> m, length |-> len] ]

NoData == [isLargeData |-> FALSE, filePath |-> <<>>, message |-> [text |-> 0, length |-> 0]]

Paths == { FilePath(d, Timestamps[i], b) : d \in Dirs, i \in 1..Len(Timestamps), b \in BOOLEAN }
BigPaths == { FilePath(d, Timestamps[i], TRUE) : d \in Dirs, i \in 1..Len(Timestamps) }

(* ----------------------------------------------------------------- state *)
VARIABLES
    now,              \* index into Timestamps: the current wall clock
    dirState,         \* per directory: "ok", "missing" or "denied"
    umask,            \* the process file-creation mask
    STORED_MESSAGES,  \* the retry queue
    repeatTimer,      \* the timer handle variable, 0 for undefined
    timers,           \* timeouts pending in the event loop
    pc,               \* per writeLog call: where it is suspended
    args,             \* per writeLog call: its arguments
    logMessageData,   \* per writeLog call: the record it built
    att,              \* per message: the writeData call in flight for it
    holders,          \* per `_big` file: the open handles holding flock(LOCK_EX)
    content,          \* per file: the chunks appended so far
    ext,              \* the external cooperating process
    extLeft,          \* lock acquisitions left to the external process
    faults,           \* I/O errors injected so far
    flockCalls,       \* history: messages whose writer called flock(.., 'exnb')
    opens,            \* history: messages for which a file open was issued
    lastResult,       \* history: outcome of each message's latest write attempt
    enqueued,         \* history: messages in the order writeLog pushed them
    written           \* history: messages in the order their append completed

vars == << now, dirState, umask, STORED_MESSAGES, repeatTimer, timers, pc, args,
           logMessageData, att, holders, content, ext, extLeft, faults, flockCalls,
           opens, lastResult, enqueued, written >>

ExtHandle == <<"ext", 0>>
Handle(m) == <<"open", m>>        \* the open handle of m's attempt in flight
Closing(m) == <<"closing", m>>    \* a handle of m whose close() was issued, not awaited

\* queueBefore and pushesBefore are history: the queue and the number of
\* pushes at the moment the timer fired for this attempt
NoAtt == [kind |-> "none", pc |-> "none", oldMask |-> 0, data |-> NoData,
          queueBefore |-> <<>>, pushesBefore |-> 0]
ExtIdle == [pc |-> "idle", file |-> <<>>]

Init ==
    /\ now = 1
    /\ dirState \in [Dirs -> {"ok", "missing", "denied"}]
    /\ umask = InitialUmask
    /\ STORED_MESSAGES = <<>>
    /\ repeatTimer = 0
    /\ timers = {}
    /\ pc = [m \in Msgs |-> "init"]
    /\ args = [m \in Msgs |-> [dirPath |-> "", length |-> 0]]
    /\ logMessageData = [m \in Msgs |-> NoData]
    /\ att = [m \in Msgs |-> NoAtt]
    /\ holders = [f \in BigPaths |-> {}]
    /\ content = [f \in Paths |-> <<>>]
    /\ ext = ExtIdle
    /\ extLeft = MaxExt
    /\ faults = 0
    /\ flockCalls = {}
    /\ opens = {}
    /\ lastResult = [m \in Msgs |-> "none"]
    /\ enqueued = <<>>
    /\ written = <<>>

(* ------------------------------------------------------- the retry timer *)
\* a timer handle setTimeout has not handed out among the live ones
NewTimer(ts) == CHOOSE t \in 1..(Cardinality(ts) + 1) : t \notin ts

\* tryToWriteStoredData without its `if (repeatTimer) return`
tryToWriteStoredDataUnguarded(q, rt, ts) ==
    IF Len(q) = 0
    THEN [repeatTimer |-> 0, timers |-> ts \ {rt}]
    ELSE [repeatTimer |-> NewTimer(ts), timers |-> ts \cup {NewTimer(ts)}]

\* tryToWriteStoredData(), as the values it leaves in repeatTimer and the
\* event loop's timers, given the queue q
tryToWriteStoredData(q, rt, ts) ==
    IF Len(q) = 0
    THEN [repeatTimer |-> 0, timers |-> ts \ {rt}]
    ELSE IF rt # 0
         THEN [repeatTimer |-> rt, timers |-> ts]
         ELSE [repeatTimer |-> NewTimer(ts), timers |-> ts \cup {NewTimer(ts)}]

(* ---------------------------------------------------------------- writer *)
\* writeData up to its first await: the mask is saved and cleared, the
\* writer chosen by isLargeData issues its open
WriteDataStart(m, data, kind) ==
    /\ att' = [att EXCEPT ![m] =
                 [kind |-> kind, pc |-> IF data.isLargeData THEN "open" ELSE "stream_open",
                  oldMask |-> umask, data |-> data,
                  queueBefore |-> IF kind = "retry" THEN STORED_MESSAGES ELSE <<>>,
                  pushesBefore |-> IF kind = "retry" THEN Len(enqueued) ELSE 0]]
    /\ umask' = 0
    /\ opens' = opens \cup {m}

\* writeLog's catch unshifting instead of pushing
QueueAfterUnshift(m, kind, res) ==
    IF res = "ok" THEN STORED_MESSAGES
    ELSE IF kind = "submit"
         THEN IF res = "FILE_LOCKED"
              THEN <<att[m].data>> \o STORED_MESSAGES ELSE STORED_MESSAGES
         ELSE <<att[m].data>> \o STORED_MESSAGES

\* writeLog's catch queueing the message whatever the error's code
QueueAfterAnyError(m, kind, res) ==
    IF res = "ok" THEN STORED_MESSAGES
    ELSE IF kind = "submit"
         THEN Append(STORED_MESSAGES, att[m].data)
         ELSE <<att[m].data>> \o STORED_MESSAGES

\* the queue after the catch block of the caller of writeData
QueueAfter(m, kind, res) ==
    IF res = "ok" THEN STORED_MESSAGES
    ELSE IF kind = "submit"
         THEN IF res = "FILE_LOCKED"
              THEN Append(STORED_MESSAGES, att[m].data) ELSE STORED_MESSAGES
         ELSE <<att[m].data>> \o STORED_MESSAGES

\* the timer callback rescheduling only after a failed attempt
ReschedulesOnFailureOnly(kind, res, q) ==
    IF kind = "submit" THEN res = "FILE_LOCKED" ELSE res # "ok" /\ Len(q) > 0

\* does the caller of writeData call tryToWriteStoredData afterwards
Reschedules(kind, res, q) ==
    IF kind = "submit" THEN res = "FILE_LOCKED" ELSE Len(q) > 0

\* the writer's promise settles with res: the rest of writeData (the mask is
\* restored on the success path only) and of its caller, writeLog's try/catch
\* or the timer callback's, run as its continuations
Settle(m, res) ==
    LET kind == att[m].kind
        q == QueueAfter(m, kind, res)
        tm == IF Reschedules(kind, res, q)
              THEN tryToWriteStoredData(q, repeatTimer, timers)
              ELSE [repeatTimer |-> repeatTimer, timers |-> timers]
    IN /\ umask' = IF res = "ok" THEN att[m].oldMask ELSE umask
       /\ STORED_MESSAGES' = q
       /\ repeatTimer' = tm.repeatTimer
       /\ timers' = tm.timers
       /\ att' = [att EXCEPT ![m] = NoAtt]
       /\ lastResult' = [lastResult EXCEPT ![m] = res]
       /\ enqueued' = IF kind = "submit" /\ res = "FILE_LOCKED"
                      THEN Append(enqueued, m) ELSE enqueued
       /\ pc' = IF kind = "submit"
                THEN [pc EXCEPT ![m] = IF res \in {"ok", "FILE_LOCKED"}
                                       THEN "resolved" ELSE "rejected"]
                ELSE pc

File(m) == att[m].data.filePath

Faulty == faults < MaxFaults

\* the lock request never refused (err of the flock callback ignored)
LockAlwaysGranted(f) == TRUE

\* flock(fd, 'exnb') succeeds iff no other open handle holds the lock
LockFree(f) == holders[f] = {}

\* fs.promises.open resolves: flock(openFile.fd, 'exnb', ..) is called
OpenOk(m) ==
    /\ att[m].pc = "open"
    /\ att' = [att EXCEPT ![m].pc = "flock"]
    /\ flockCalls' = flockCalls \cup {m}
    /\ UNCHANGED << now, dirState, umask, STORED_MESSAGES, repeatTimer, timers, pc, args,
                    logMessageData, holders, content, ext, extLeft, faults, opens,
                    lastResult, enqueued, written >>

\* fs.promises.open rejects: reject(LogException) without a code
OpenFail(m) ==
    /\ att[m].pc = "open"
    /\ Faulty
    /\ faults' = faults + 1
    /\ Settle(m, "OPEN_ERROR")
    /\ UNCHANGED << now, dirState, args, logMessageData, holders, content, ext, extLeft,
                    flockCalls, opens, written >>

\* the flock callback without err: the handle holds the lock, the write is issued
FlockOk(m) ==
    /\ att[m].pc = "flock"
    /\ LockFree(File(m))
    /\ holders' = [holders EXCEPT ![File(m)] = @ \cup {Handle(m)}]
    /\ att' = [att EXCEPT ![m].pc = "write"]
    /\ UNCHANGED << now, dirState, umask, STORED_MESSAGES, repeatTimer, timers, pc, args,
                    logMessageData, content, ext, extLeft, faults, flockCalls, opens,
                    lastResult, enqueued, written >>

\* the flock callback with err: close, reject with code FILE_LOCKED
FlockErr(m) ==
    /\ att[m].pc = "flock"
    /\ ~LockFree(File(m))
    /\ Settle(m, "FILE_LOCKED")
    /\ UNCHANGED << now, dirState, args, logMessageData, holders, content, ext, extLeft,
                    faults, flockCalls, opens, written >>

\* openFile.write under way: the first part of the text is in the file
WritePart(m) ==
    /\ att[m].pc = "write"
    /\ content' = [content EXCEPT ![File(m)] = Append(@, <<m, 1>>)]
    /\ att' = [att EXCEPT ![m].pc = "write_rest"]
    /\ UNCHANGED << now, dirState, umask, STORED_MESSAGES, repeatTimer, timers, pc, args,
                    logMessageData, holders, ext, extLeft, faults, flockCalls, opens,
                    lastResult, enqueued, written >>

\* openFile.write resolves: the text and os.EOL are appended;
\* flock(openFile.fd, 'un', ..) is called
WriteOk(m) ==
    /\ att[m].pc = "write_rest"
    /\ content' = [content EXCEPT ![File(m)] = Append(@, <<m, 2>>)]
    /\ written' = Append(written, m)
    /\ att' = [att EXCEPT ![m].pc = "unlock"]
    /\ UNCHANGED << now, dirState, umask, STORED_MESSAGES, repeatTimer, timers, pc, args,
                    logMessageData, holders, ext, extLeft, faults, flockCalls, opens,
                    lastResult, enqueued >>

\* openFile.write rejects: close() is issued and not awaited, flock(.., 'un')
\* is called on the handle just closed, reject.  The lock goes with the
\* descriptor, when close() completes.  (The code then falls through to the
\* second flock(.., 'un'), whose callback closes and rejects again: no effect.)
WriteFail(m) ==
    /\ att[m].pc \in {"write", "write_rest"}
    /\ Faulty
    /\ faults' = faults + 1
    /\ holders' = [holders EXCEPT ![File(m)] = (@ \ {Handle(m)}) \cup {Closing(m)}]
    /\ Settle(m, "WRITE_ERROR")
    /\ UNCHANGED << now, dirState, args, logMessageData, content, ext, extLeft,
                    flockCalls, opens, written >>

\* the unlock callback without err: close, resolve(true)
UnlockOk(m) ==
    /\ att[m].pc = "unlock"
    /\ holders' = [holders EXCEPT ![File(m)] = @ \ {Handle(m)}]
    /\ Settle(m, "ok")
    /\ UNCHANGED << now, dirState, args, logMessageData, content, ext, extLeft, faults,
                    flockCalls, opens, written >>

\* the unlock callback with err: close() is issued and not awaited, reject
UnlockFail(m) ==
    /\ att[m].pc = "unlock"
    /\ Faulty
    /\ faults' = faults + 1
    /\ holders' = [holders EXCEPT ![File(m)] = (@ \ {Handle(m)}) \cup {Closing(m)}]
    /\ Settle(m, "UNLOCK_ERROR")
    /\ UNCHANGED << now, dirState, args, logMessageData, content, ext, extLeft,
                    flockCalls, opens, written >>

\* a close() that was not awaited completes: the descriptor and its lock go
CloseDone(m) ==
    /\ \E f \in BigPaths : Closing(m) \in holders[f]
    /\ holders' = [f \in BigPaths |-> holders[f] \ {Closing(m)}]
    /\ UNCHANGED << now, dirState, umask, STORED_MESSAGES, repeatTimer, timers, pc, args,
                    logMessageData, att, content, ext, extLeft, faults, flockCalls, opens,
                    lastResult, enqueued, written >>

\* fs.createWriteStream opened the file: the buffered write goes out
StreamOpenOk(m) ==
    /\ att[m].pc = "stream_open"
    /\ att' = [att EXCEPT ![m].pc = "stream_write"]
    /\ UNCHANGED << now, dirState, umask, STORED_MESSAGES, repeatTimer, timers, pc, args,
                    logMessageData, holders, content, ext, extLeft, faults, flockCalls,
                    opens, lastResult, enqueued, written >>

\* the stream emits 'finish': the text and os.EOL are appended in one write
StreamFinish(m) ==
    /\ att[m].pc = "stream_write"
    /\ content' = [content EXCEPT ![File(m)] = Append(@, <<m, 0>>)]
    /\ written' = Append(written, m)
    /\ Settle(m, "ok")
    /\ UNCHANGED << now, dirState, args, logMessageData, holders, ext, extLeft, faults,
                    flockCalls, opens >>

\* the stream emits 'error' (open or write failed): reject without a code
StreamError(m) ==
    /\ att[m].pc \in {"stream_open", "stream_write"}
    /\ Faulty
    /\ faults' = faults + 1
    /\ Settle(m, "WRITE_ERROR")
    /\ UNCHANGED << now, dirState, args, logMessageData, holders, content, ext, extLeft,
                    flockCalls, opens, written >>

(* -------------------------------------------------------------- writeLog *)
\* writeLog(dirPath, message) is called: fs.promises.access is issued
WriteLogCall(m, d, len) ==
    /\ pc[m] = "init"
    /\ \A k \in Msgs : k < m => pc[k] # "init"
    /\ pc' = [pc EXCEPT ![m] = "access"]
    /\ args' = [args EXCEPT ![m] = [dirPath |-> d, length |-> len]]
    /\ UNCHANGED << now, dirState, umask, STORED_MESSAGES, repeatTimer, timers,
                    logMessageData, att, holders, content, ext, extLeft, faults,
                    flockCalls, opens, lastResult, enqueued, written >>

\* lines 58-74: the record is built from the clock and the length, and
\* writeData is called with it
BuildAndWrite(m) ==
    LET data == LogMessageData(m, args[m].dirPath, args[m].length, Timestamps[now])
    IN /\ logMessageData' = [logMessageData EXCEPT ![m] = data]
       /\ pc' = [pc EXCEPT ![m] = "writeData"]
       /\ WriteDataStart(m, data, "submit")

\* access resolves: the directory exists and is writable
AccessOk(m) ==
    /\ pc[m] = "access"
    /\ dirState[args[m].dirPath] = "ok"
    /\ BuildAndWrite(m)
    /\ UNCHANGED << now, dirState, STORED_MESSAGES, repeatTimer, timers, args, holders,
                    content, ext, extLeft, faults, flockCalls, lastResult, enqueued,
                    written >>

\* access rejects with ENOENT: mkdir is issued
AccessENOENT(m) ==
    /\ pc[m] = "access"
    /\ dirState[args[m].dirPath] = "missing"
    /\ pc' = [pc EXCEPT ![m] = "mkdir"]
    /\ UNCHANGED << now, dirState, umask, STORED_MESSAGES, repeatTimer, timers, args,
                    logMessageData, att, holders, content, ext, extLeft, faults,
                    flockCalls, opens, lastResult, enqueued, written >>

\* the error of access swallowed: writeLog goes on to build and write
AccessDeniedIgnored(m) ==
    /\ pc[m] = "access"
    /\ dirState[args[m].dirPath] = "denied"
    /\ BuildAndWrite(m)
    /\ UNCHANGED << now, dirState, STORED_MESSAGES, repeatTimer, timers, args, holders,
                    content, ext, extLeft, faults, flockCalls, lastResult, enqueued,
                    written >>

\* access rejects with another code: throw "Not enough permissions ..."
AccessDenied(m) ==
    /\ pc[m] = "access"
    /\ dirState[args[m].dirPath] = "denied"
    /\ pc' = [pc EXCEPT ![m] = "rejected"]
    /\ UNCHANGED << now, dirState, umask, STORED_MESSAGES, repeatTimer, timers, args,
                    logMessageData, att, holders, content, ext, extLeft, faults,
                    flockCalls, opens, lastResult, enqueued, written >>

\* mkdir resolves (also when a concurrent call made the directory): chmod is issued
MkdirOk(m) ==
    /\ pc[m] = "mkdir"
    /\ pc' = [pc EXCEPT ![m] = "chmod"]
    /\ dirState' = [dirState EXCEPT ![args[m].dirPath] = "ok"]
    /\ UNCHANGED << now, umask, STORED_MESSAGES, repeatTimer, timers, args,
                    logMessageData, att, holders, content, ext, extLeft, faults,
                    flockCalls, opens, lastResult, enqueued, written >>

\* mkdir or chmod rejects: throw "Can not create folder ..."
MkdirFail(m) ==
    /\ pc[m] \in {"mkdir", "chmod"}
    /\ Faulty
    /\ faults' = faults + 1
    /\ pc' = [pc EXCEPT ![m] = "rejected"]
    /\ UNCHANGED << now, dirState, umask, STORED_MESSAGES, repeatTimer, timers, args,
                    logMessageData, att, holders, content, ext, extLeft, flockCalls,
                    opens, lastResult, enqueued, written >>

\* chmod resolves
ChmodOk(m) ==
    /\ pc[m] = "chmod"
    /\ BuildAndWrite(m)
    /\ UNCHANGED << now, dirState, STORED_MESSAGES, repeatTimer, timers, args, holders,
                    content, ext, extLeft, faults, flockCalls, lastResult, enqueued,
                    written >>

(* -------------------------------------------------------- timer callback *)
\* the queued record of message m, NoData when it is not queued
InQueueData(m) ==
    IF \E i \in 1..Len(STORED_MESSAGES) : STORED_MESSAGES[i].message.text = m
    THEN STORED_MESSAGES[CHOOSE i \in 1..Len(STORED_MESSAGES) :
                            STORED_MESSAGES[i].message.text = m]
    ELSE NoData

\* the timer callback draining the whole queue in one tick: every queued
\* message is shifted and handed to writeData
TimerFireDrainsAll(t) ==
    /\ t \in timers
    /\ timers' = (timers \ {t}) \ {repeatTimer}
    /\ repeatTimer' = 0
    /\ STORED_MESSAGES' = <<>>
    /\ att' = [m \in Msgs |->
                 IF InQueueData(m) # NoData
                 THEN [kind |-> "retry",
                       pc |-> IF InQueueData(m).isLargeData THEN "open" ELSE "stream_open",
                       oldMask |-> umask, data |-> InQueueData(m),
                       queueBefore |-> STORED_MESSAGES, pushesBefore |-> Len(enqueued)]
                 ELSE att[m]]
    /\ umask' = IF STORED_MESSAGES # <<>> THEN 0 ELSE umask
    /\ opens' = opens \cup { STORED_MESSAGES[i].message.text : i \in 1..Len(STORED_MESSAGES) }
    /\ UNCHANGED << now, dirState, pc, args, logMessageData, holders, content, ext,
                    extLeft, faults, flockCalls, lastResult, enqueued, written >>

\* the timer callback deriving the file path again from the clock
TimerFireRecomputesPath(t) ==
    /\ t \in timers
    /\ timers' = (timers \ {t}) \ {repeatTimer}
    /\ repeatTimer' = 0
    /\ IF Len(STORED_MESSAGES) > 0
       THEN LET head == Head(STORED_MESSAGES)
                data == [head EXCEPT !.filePath =
                            FilePath(args[head.message.text].dirPath, Timestamps[now],
                                     head.isLargeData)]
            IN /\ STORED_MESSAGES' = Tail(STORED_MESSAGES)
               /\ WriteDataStart(data.message.text, data, "retry")
       ELSE UNCHANGED << STORED_MESSAGES, att, umask, opens >>
    /\ UNCHANGED << now, dirState, pc, args, logMessageData, holders, content, ext,
                    extLeft, faults, flockCalls, lastResult, enqueued, written >>

\* the setTimeout callback of tryToWriteStoredData (lines 101-124) up to its
\* await: the handle is cleared, one message is shifted off the queue and
\* writeData is called with it
TimerFire(t) ==
    /\ t \in timers
    /\ timers' = (timers \ {t}) \ {repeatTimer}
    /\ repeatTimer' = 0
    /\ IF Len(STORED_MESSAGES) > 0
       THEN LET data == Head(STORED_MESSAGES)
            IN /\ STORED_MESSAGES' = Tail(STORED_MESSAGES)
               /\ WriteDataStart(data.message.text, data, "retry")
       ELSE UNCHANGED << STORED_MESSAGES, att, umask, opens >>
    /\ UNCHANGED << now, dirState, pc, args, logMessageData, holders, content, ext,
                    extLeft, faults, flockCalls, lastResult, enqueued, written >>

(* ----------------------------------------------------------- environment *)
\* the wall clock reaches the next reading
Tick ==
    /\ now < Len(Timestamps)
    /\ now' = now + 1
    /\ UNCHANGED << dirState, umask, STORED_MESSAGES, repeatTimer, timers, pc, args,
                    logMessageData, att, holders, content, ext, extLeft, faults,
                    flockCalls, opens, lastResult, enqueued, written >>

\* another process, following the same discipline, takes the lock on a file
ExtLock(f) ==
    /\ ext.pc = "idle"
    /\ extLeft > 0
    /\ holders[f] = {}
    /\ holders' = [holders EXCEPT ![f] = {ExtHandle}]
    /\ ext' = [pc |-> "locked", file |-> f]
    /\ extLeft' = extLeft - 1
    /\ UNCHANGED << now, dirState, umask, STORED_MESSAGES, repeatTimer, timers, pc, args,
                    logMessageData, att, content, faults, flockCalls, opens, lastResult,
                    enqueued, written >>

\* it appends its own record and releases the lock
ExtUnlock ==
    /\ ext.pc = "locked"
    /\ content' = [content EXCEPT ![ext.file] = Append(@, <<0, 0>>)]
    /\ holders' = [holders EXCEPT ![ext.file] = @ \ {ExtHandle}]
    /\ ext' = ExtIdle
    /\ UNCHANGED << now, dirState, umask, STORED_MESSAGES, repeatTimer, timers, pc, args,
                    logMessageData, att, extLeft, faults, flockCalls, opens, lastResult,
                    enqueued, written >>

(* ------------------------------------------------------- specifications *)
Next ==
    \/ \E m \in Msgs, d \in Dirs, len \in Lengths : WriteLogCall(m, d, len)
    \/ \E m \in Msgs : AccessOk(m)
    \/ \E m \in Msgs : AccessENOENT(m)
    \/ \E m \in Msgs : AccessDenied(m)
    \/ \E m \in Msgs : MkdirOk(m)
    \/ \E m \in Msgs : MkdirFail(m)
    \/ \E m \in Msgs : ChmodOk(m)
    \/ \E m \in Msgs : OpenOk(m)
    \/ \E m \in Msgs : OpenFail(m)
    \/ \E m \in Msgs : FlockOk(m)
    \/ \E m \in Msgs : FlockErr(m)
    \/ \E m \in Msgs : WritePart(m)
    \/ \E m \in Msgs : WriteOk(m)
    \/ \E m \in Msgs : WriteFail(m)
    \/ \E m \in Msgs : UnlockOk(m)
    \/ \E m \in Msgs : UnlockFail(m)
    \/ \E m \in Msgs : CloseDone(m)
    \/ \E m \in Msgs : StreamOpenOk(m)
    \/ \E m \in Msgs : StreamFinish(m)
    \/ \E m \in Msgs : StreamError(m)
    \/ \E t \in timers : TimerFire(t)
    \/ Tick
    \/ \E f \in BigPaths : ExtLock(f)
    \/ ExtUnlock

Spec == Init /\ [][Next]_vars

\* The retry subsystem left to itself: the writes fail with FILE_LOCKED only,
\* the event loop runs every callback that is due, the external process
\* releases what it holds and takes the lock finitely often (extLeft).
NextLive ==
    \/ \E m \in Msgs, d \in Dirs, len \in Lengths : WriteLogCall(m, d, len)
    \/ \E m \in Msgs : AccessOk(m)
    \/ \E m \in Msgs : AccessENOENT(m)
    \/ \E m \in Msgs : AccessDenied(m)
    \/ \E m \in Msgs : MkdirOk(m)
    \/ \E m \in Msgs : ChmodOk(m)
    \/ \E m \in Msgs : OpenOk(m)
    \/ \E m \in Msgs : FlockOk(m)
    \/ \E m \in Msgs : FlockErr(m)
    \/ \E m \in Msgs : WritePart(m)
    \/ \E m \in Msgs : WriteOk(m)
    \/ \E m \in Msgs : UnlockOk(m)
    \/ \E m \in Msgs : StreamOpenOk(m)
    \/ \E m \in Msgs : StreamFinish(m)
    \/ \E t \in timers : TimerFire(t)
    \/ Tick
    \/ \E f \in BigPaths : ExtLock(f)
    \/ ExtUnlock

Fairness ==
    /\ \A m \in Msgs :
          /\ WF_vars(AccessOk(m)) /\ WF_vars(AccessENOENT(m)) /\ WF_vars(AccessDenied(m))
          /\ WF_vars(MkdirOk(m)) /\ WF_vars(ChmodOk(m))
          /\ WF_vars(OpenOk(m)) /\ WF_vars(FlockOk(m)) /\ WF_vars(FlockErr(m))
          /\ WF_vars(WritePart(m)) /\ WF_vars(WriteOk(m)) /\ WF_vars(UnlockOk(m))
          /\ WF_vars(StreamOpenOk(m)) /\ WF_vars(StreamFinish(m))
    /\ WF_vars(\E t \in timers : TimerFire(t))
    /\ WF_vars(ExtUnlock)

LiveSpec == Init /\ [][NextLive]_vars /\ Fairness

(* ---------------------------------------------------------------- claims *)
Range(q) == { q[i] : i \in 1..Len(q) }
InQueue(m) == \E i \in 1..Len(STORED_MESSAGES) : STORED_MESSAGES[i].message.text = m
Built(m) == logMessageData[m] # NoData
Failures == {"OPEN_ERROR", "WRITE_ERROR", "UNLOCK_ERROR"}
\* the step in which m's write attempt, made by writeLog, settles
SubmitSettles(m) == att[m].kind = "submit" /\ att'[m].kind = "none"

C2_LockAroundWrite ==
    \A m \in Msgs :
        /\ (Built(m) /\ args[m].length > MAX_MESSAGE_SIZE) =>
              "_big" \in Range(logMessageData[m].filePath)
        /\ att[m].pc \in {"write", "write_rest", "unlock"} =>
              Handle(m) \in holders[File(m)]
        /\ att[m].kind = "none" =>
              \A f \in BigPaths : holders[f] \cap {Handle(m), Closing(m)} = {}

\* C3: at most one handle holds the lock of a file; the two parts of a large
\* record are adjacent in the file, nothing of another writer between them; a
\* writer refused the lock got FILE_LOCKED and its message is back in the queue
\* while no attempt for it is in flight.
C3_MutualExclusion ==
    /\ \A f \in BigPaths :
          /\ Cardinality(holders[f]) <= 1
          /\ \A i \in 1..Len(content[f]) :
                content[f][i][2] = 2 =>
                    i > 1 /\ content[f][i - 1] = <<content[f][i][1], 1>>
    /\ \A m \in Msgs :
          /\ att[m].pc = "write_rest" =>
                content[File(m)][Len(content[File(m)])] = <<m, 1>>
          /\ (lastResult[m] = "FILE_LOCKED" /\ att[m].kind = "none") => InQueue(m)

C3_Witness ==
    \E a \in Msgs, b \in Msgs :
        /\ a # b
        /\ att[a].pc = "write_rest"
        /\ Handle(a) \in holders[File(a)]
        /\ lastResult[b] = "FILE_LOCKED"
        /\ \E i \in 1..Len(STORED_MESSAGES) :
              /\ STORED_MESSAGES[i].message.text = b
              /\ STORED_MESSAGES[i].filePath = File(a)

\* C4: when the write attempt made by writeLog fails with FILE_LOCKED, the
\* record goes to the tail of the queue, a retry timer is pending afterwards,
\* and writeLog resolves in that same step, no retry having run.
C4_LockedIsQueuedAndResolved ==
    [][\A m \in Msgs :
          (SubmitSettles(m) /\ lastResult'[m] = "FILE_LOCKED") =>
              /\ STORED_MESSAGES' = Append(STORED_MESSAGES, logMessageData[m])
              /\ repeatTimer' # 0
              /\ timers' = {repeatTimer'}
              /\ pc'[m] = "resolved"
              /\ att'[m] = NoAtt]_vars

C4_Witness ==
    \E m \in Msgs :
        /\ pc[m] = "resolved"
        /\ lastResult[m] = "FILE_LOCKED"
        /\ Len(STORED_MESSAGES) = 2
        /\ STORED_MESSAGES[2] = logMessageData[m]
        /\ timers # {}

\* C5: when the write attempt made by writeLog fails with an error other than
\* FILE_LOCKED, writeLog rejects, the queue and the timer are left as they were,
\* and the message is never in the queue nor attempted again.
C5_FatalIsRejectedNotQueued ==
    /\ [][\A m \in Msgs :
            (SubmitSettles(m) /\ lastResult'[m] \in Failures) =>
                /\ pc'[m] = "rejected"
                /\ UNCHANGED << STORED_MESSAGES, repeatTimer, timers >>]_vars
    /\ [](\A m \in Msgs :
            (pc[m] = "rejected" /\ lastResult[m] \in Failures) =>
                ~InQueue(m) /\ att[m] = NoAtt)

C5_Witness ==
    \E m \in Msgs, k \in Msgs :
        /\ pc[m] = "rejected"
        /\ lastResult[m] = "UNLOCK_ERROR"
        /\ InQueue(k)

\* C6: when the directory check or the directory creation fails, writeLog
\* rejects before any write attempt: a file is opened only for a call whose
\* directory is there, the failed call built no record, opened and wrote
\* nothing, is not queued, and its failing step leaves queue and timer alone.
C6_DirectoryFailureFailsFast ==
    /\ [](\A m \in Msgs :
            /\ m \in opens => dirState[args[m].dirPath] = "ok"
            /\ (pc[m] = "rejected" /\ lastResult[m] = "none") =>
                  /\ ~Built(m)
                  /\ m \notin opens
                  /\ ~InQueue(m)
                  /\ \A f \in Paths : \A i \in 1..Len(content[f]) : content[f][i][1] # m)
    /\ [][\A m \in Msgs :
            (pc[m] \in {"access", "mkdir", "chmod"} /\ pc'[m] = "rejected") =>
                UNCHANGED << STORED_MESSAGES, repeatTimer, timers, opens, content, att >>]_vars

C6_Witness ==
    \E m \in Msgs, k \in Msgs :
        /\ pc[m] = "rejected"
        /\ lastResult[m] = "none"
        /\ args[m].dirPath \in Dirs
        /\ k # m /\ pc[k] = "resolved"

\* C7: at most one retry timer is pending, it is the one repeatTimer names,
\* and while it is pending no step schedules another or replaces it: the only
\* change to the pending timer is its firing.
C7_OneTimer ==
    /\ [](/\ Cardinality(timers) <= 1
          /\ repeatTimer # 0 => timers = {repeatTimer}
          /\ timers # {} => repeatTimer # 0)
    /\ [][timers # {} =>
            \/ timers' = timers /\ repeatTimer' = repeatTimer
            \/ timers' = {} /\ repeatTimer' = 0
                 /\ Len(STORED_MESSAGES') = Len(STORED_MESSAGES) - 1]_vars

\* writeLog pushed a second record while the timer was pending
C7_Witness ==
    /\ Len(STORED_MESSAGES) = 2
    /\ Len(enqueued) = 2
    /\ Cardinality(timers) = 1
    /\ \A m \in Msgs : att[m].kind = "none"

\* C8 (as claimed): at most one write attempt started by a timer firing is in
\* flight at any time.
C8_OneRetryInFlight ==
    Cardinality({ m \in Msgs : att[m].kind = "retry" }) <= 1

\* C9: with the writes failing only with FILE_LOCKED, finitely often, and
\* every due callback run, the queue ends empty for good with no timer
\* pending and every message that entered it written to its file.
C9_QueueDrains ==
    <>[](/\ STORED_MESSAGES = <<>>
         /\ timers = {}
         /\ repeatTimer = 0
         /\ \A i \in 1..Len(enqueued) :
               /\ enqueued[i] \in Range(written)
               /\ <<enqueued[i], 2>> \in Range(content[logMessageData[enqueued[i]].filePath]))

C9_Witness ==
    /\ Len(enqueued) = 2
    /\ STORED_MESSAGES = <<>>
    /\ timers = {}
    /\ \A i \in 1..Len(enqueued) : enqueued[i] \in Range(written)

\* C10 (as claimed): of two messages that entered the retry queue, the one
\* pushed earlier is written to its file before the one pushed later.
C10_QueueOrderIsWriteOrder ==
    \A i \in 1..Len(enqueued) : \A j \in 1..Len(enqueued) :
        (i < j /\ enqueued[j] \in Range(written)) => enqueued[i] \in Range(written)

\* the step in which a write attempt for m (by writeLog or by the timer
\* callback) completes
AttemptCompletes(m) == att[m].kind # "none" /\ att'[m].kind = "none"

\* C11 (as claimed): whenever a call of writeData completes, with success or
\* with any failure, the process mask is back at the value it had just before
\* that call set it to 0.
C11_MaskRestoredAlways ==
    [][\A m \in Msgs : AttemptCompletes(m) => umask' = att[m].oldMask]_vars

\* the file name the README gives: year|month|day|hour|minute
ReadmeFileName(t) ==
    Numeric(t.year) \o TwoDigit(t.month) \o TwoDigit(t.day) \o TwoDigit(t.hour)
        \o TwoDigit(t.minute)

\* /tmp/lsd/202302121626.log
ScenarioPath ==
    <<"/tmp/lsd", "/", "2", "0", "2", "3", "0", "2", "1", "2", "1", "6", "2", "6", ".log">>

\* C12 (as claimed): a small message goes to {dirPath}/{year month day hour
\* minute digits}.log of the minute writeLog ran in, and writeLog("/tmp/lsd",
\* "hello") at 2023-02-12T16:26:03, once written, has put hello and one line
\* terminator in /tmp/lsd/202302121626.log.
C12_ReadmeFileName ==
    \A m \in Msgs :
        (Built(m) /\ args[m].length <= MAX_MESSAGE_SIZE) =>
            /\ \E i \in 1..now :
                  logMessageData[m].filePath =
                      <<args[m].dirPath, "/">> \o ReadmeFileName(Timestamps[i]) \o <<".log">>
            /\ (args[m].dirPath = "/tmp/lsd" /\ args[m].length = 5 /\ now = 1
                  /\ lastResult[m] = "ok") =>
                  /\ ScenarioPath \in DOMAIN content
                  /\ content[ScenarioPath] = <<<<m, 0>>>>

\* the step in which a write attempt started by the timer callback completes
RetrySettles(m) == att[m].kind = "retry" /\ att'[m].kind = "none"

\* C13 (as claimed): when a retry attempt fails with an error other than
\* FILE_LOCKED, the message is dropped: it is not put back in the queue.
C13_RetryFatalIsDropped ==
    [][\A m \in Msgs :
          (RetrySettles(m) /\ lastResult'[m] \in Failures) =>
              \A i \in 1..Len(STORED_MESSAGES') : STORED_MESSAGES'[i].message.text # m]_vars

\* C14 (as claimed): a message is in the retry queue exactly when its most
\* recent write attempt has failed with FILE_LOCKED (none being in flight for
\* it); no message that has been written is in the queue.
C14_QueueMembership ==
    \A m \in Msgs :
        /\ InQueue(m) <=> (att[m].kind = "none" /\ lastResult[m] = "FILE_LOCKED")
        /\ InQueue(m) => m \notin Range(written)

RetryInFlight == \E m \in Msgs : att[m].kind = "retry"

\* C15: a retry timer is pending only while the queue is non-empty, and
\* whenever the queue is non-empty and no retry attempt is in flight a timer is
\* pending: the subsystem is Idle (empty queue, no timer), Scheduled
\* (non-empty queue, timer pending) or Draining (a retry attempt in flight).
C15_TimerQueueStates ==
    /\ timers # {} => Len(STORED_MESSAGES) > 0
    /\ (Len(STORED_MESSAGES) > 0 /\ ~RetryInFlight) => timers # {}
    /\ \/ STORED_MESSAGES = <<>> /\ timers = {}
       \/ STORED_MESSAGES # <<>> /\ timers # {}
       \/ RetryInFlight

\* a retry has completed leaving a message in the queue, and a timer is pending
C15_Witness ==
    /\ Len(STORED_MESSAGES) > 0
    /\ ~RetryInFlight
    /\ timers # {}
    /\ \E m \in Msgs : lastResult[m] = "ok" /\ m \in Range(enqueued)

\* the step in which the pending retry timer fires
TimerFires == timers # {} /\ timers' = {}

\* C16: a firing of the retry timer removes exactly the head of the queue and
\* starts exactly one write attempt, for that message; no other step, whatever
\* the outcome of an attempt, removes anything from the queue.
C16_OnePerTick ==
    /\ [][TimerFires =>
            /\ STORED_MESSAGES # <<>>
            /\ STORED_MESSAGES' = Tail(STORED_MESSAGES)
            /\ \E m \in Msgs :
                  /\ m = Head(STORED_MESSAGES).message.text
                  /\ att[m].kind = "none"
                  /\ att'[m].kind = "retry"
                  /\ att'[m].data = Head(STORED_MESSAGES)
                  /\ \A k \in Msgs \ {m} : att'[k] = att[k]]_vars
    /\ [][Len(STORED_MESSAGES') < Len(STORED_MESSAGES) => TimerFires]_vars

\* the timer fired with two messages queued: one is in flight, one is left
C16_Witness ==
    /\ Len(STORED_MESSAGES) = 1
    /\ Len(enqueued) = 2
    /\ timers = {}
    /\ Cardinality({ m \in Msgs : att[m].kind = "retry" }) = 1
    /\ \A m \in Msgs : lastResult[m] \in {"none", "FILE_LOCKED"}

\* C17 (as claimed): a retry attempt that fails with FILE_LOCKED puts its
\* message back at the head of the queue, in front of whatever was pushed
\* meanwhile; if writeLog pushed nothing during the attempt, the queue is then
\* the queue as it was just before the timer fired.
C17_ReinsertAtHead ==
    [][\A m \in Msgs :
          (RetrySettles(m) /\ lastResult'[m] = "FILE_LOCKED") =>
              /\ STORED_MESSAGES' = <<att[m].data>> \o STORED_MESSAGES
              /\ Len(enqueued) = att[m].pushesBefore =>
                    STORED_MESSAGES' = att[m].queueBefore]_vars

\* C18: the record writeLog built is the one every attempt uses: an attempt
\* in flight, by writeLog or by a retry however late, carries the filePath and
\* isLargeData computed at submission, so does the queued record, and the text
\* of a message is found in no file but the one of that path.
C18_PathFixedAtSubmission ==
    \A m \in Msgs :
        /\ att[m].kind # "none" => att[m].data = logMessageData[m]
        /\ \A i \in 1..Len(STORED_MESSAGES) :
              STORED_MESSAGES[i].message.text = m => STORED_MESSAGES[i] = logMessageData[m]
        /\ \A f \in Paths : \A i \in 1..Len(content[f]) :
              content[f][i][1] = m => f = logMessageData[m].filePath

\* a retry running in the next minute holds the lock of the file of the
\* minute of submission and has appended to it
C18_Witness ==
    \E m \in Msgs :
        /\ now = 2
        /\ att[m].kind = "retry"
        /\ att[m].pc = "unlock"
        /\ att[m].data.filePath = FilePath(args[m].dirPath, Timestamps[1], TRUE)
        /\ <<m, 2>> \in Range(content[FilePath(args[m].dirPath, Timestamps[1], TRUE)])

\* how many times the text of m has been appended in full
Appends(m) == Cardinality({ i \in 1..Len(written) : written[i] = m })

\* C19 (as claimed): the text of a message is appended at most once, and a
\* message whose text has been appended is neither put back in the queue nor
\* reported to the caller as failed.
C19_AtMostOnce ==
    \A m \in Msgs :
        /\ Appends(m) <= 1
        /\ Appends(m) > 0 => ~InQueue(m) /\ pc[m] # "rejected"

\* C20 (as claimed): when no write attempt is in flight and every attempt
\* made so far has succeeded, the process mask has its original value, however
\* the attempts overlapped.
C20_MaskAfterOverlap ==
    ( /\ \A m \in Msgs : att[m].kind = "none" /\ lastResult[m] \in {"none", "ok"}
      /\ faults = 0
      /\ enqueued = <<>> )
        => umask = InitialUmask

====
